---- MODULE Spec2Model ----
(***************************************************************************)
(* A model of PresetPrompts/preset_prompt.py: the module-level load of     *)
(* presets.json into PRESETS and _AVAILABLE_CATEGORIES, and                *)
(* PresetPromptGenerator.generate_preset_prompt.                           *)
(*                                                                         *)
(* A Python str is a sequence of one-character strings, so that strip,     *)
(* re.split and re.sub are computed character by character.  A JSON value  *)
(* is a record [kind, val]: kind "dict" with val a sequence of [k, v]      *)
(* pairs in insertion order (OrderedDict), "list" with val a sequence of   *)
(* values, "str" with val the characters, "num" with val <<>>.             *)
(***************************************************************************)
EXTENDS Integers, Sequences, FiniteSets, TLC

\* ------------------------------------------------------------------ text

\* The characters of the model in ascending code point order:
\* "\n" 10, " " 32, "," 44, "B" 66, "_" 95, "a" 97, "b" 98, "d" 100.
CodePoints == <<"\n", " ", ",", "B", "_", "a", "b", "d">>

\* ord(c), up to an order-preserving renumbering.
Ord(c) == CHOOSE i \in 1..Len(CodePoints) : CodePoints[i] = c

\* str.isspace() of one character, which is also what \s matches.
IsSpace(c) == c \in {" ", "\n"}

\* a < b on str: lexicographic by code point, a proper prefix first.
RECURSIVE StrLess(_, _)
StrLess(a, b) ==
    IF b = <<>> THEN FALSE
    ELSE IF a = <<>> THEN TRUE
    ELSE IF Head(a) = Head(b) THEN StrLess(Tail(a), Tail(b))
    ELSE Ord(Head(a)) < Ord(Head(b))

\* The length of the run of whitespace of s that starts at position p.
RECURSIVE WsRun(_, _)
WsRun(s, p) ==
    IF p <= Len(s) /\ IsSpace(s[p]) THEN 1 + WsRun(s, p + 1) ELSE 0

\* str.strip()
RECURSIVE LStrip(_)
LStrip(s) == IF s # <<>> /\ IsSpace(Head(s)) THEN LStrip(Tail(s)) ELSE s

RECURSIVE RStrip(_)
RStrip(s) ==
    IF s # <<>> /\ IsSpace(s[Len(s)]) THEN RStrip(SubSeq(s, 1, Len(s) - 1)) ELSE s

Strip(s) == RStrip(LStrip(s))

\* The length of the match of r'\s*,\s*|\s*\n\s*' at position p of s, 0 for
\* none.  First alternative: the whitespace run at p, a comma, the run after
\* it.  Second alternative, tried when the run is not followed by a comma:
\* the whole run, if a newline is in it (\s* gives back as far as the last
\* newline and the final \s* takes the rest).
SepMatch(s, p) ==
    LET w == WsRun(s, p) IN
    IF p + w <= Len(s) /\ s[p + w] = ","
    THEN w + 1 + WsRun(s, p + w + 1)
    ELSE IF \E q \in p..(p + w - 1) : s[q] = "\n" THEN w ELSE 0

\* re.split(r'\s*,\s*|\s*\n\s*', s): the items between the leftmost
\* non-overlapping matches; cur is the item being read, acc the items so far.
RECURSIVE ReSplit(_, _, _, _)
ReSplit(s, p, cur, acc) ==
    IF p > Len(s) THEN Append(acc, cur)
    ELSE LET m == SepMatch(s, p) IN
         IF m > 0 THEN ReSplit(s, p + m, <<>>, Append(acc, cur))
         ELSE ReSplit(s, p + 1, Append(cur, s[p]), acc)

\* [item.strip() for item in items if item.strip()]
RECURSIVE StripNonEmpty(_)
StripNonEmpty(items) ==
    IF items = <<>> THEN <<>>
    ELSE LET it == Strip(Head(items)) IN
         IF it # <<>> THEN <<it>> \o StripNonEmpty(Tail(items))
         ELSE StripNonEmpty(Tail(items))

_parse_specific_choices(choices_str) ==
    IF choices_str = <<>> \/ Strip(choices_str) = <<>> THEN <<>>
    ELSE StripNonEmpty(ReSplit(Strip(choices_str), 1, <<>>, <<>>))

\* ", ".join(filter(None, parts))
RECURSIVE Join(_)
Join(parts) ==
    IF parts = <<>> THEN <<>>
    ELSE IF Head(parts) = <<>> THEN Join(Tail(parts))
    ELSE LET rest == Join(Tail(parts)) IN
         IF rest = <<>> THEN Head(parts) ELSE Head(parts) \o <<",", " ">> \o rest

\* The position after the longest run of (,\s*) groups that starts at p, and
\* the number of groups in it, as <<position, groups>>.
RECURSIVE CommaGroups(_, _, _)
CommaGroups(s, p, g) ==
    IF p <= Len(s) /\ s[p] = ","
    THEN CommaGroups(s, p + 1 + WsRun(s, p + 1), g + 1)
    ELSE <<p, g>>

\* CollapseCommas with the pattern (,\s*){3,}.
RECURSIVE CollapseCommasFromThree(_, _)
CollapseCommasFromThree(s, p) ==
    IF p > Len(s) THEN <<>>
    ELSE LET r == CommaGroups(s, p, 0) IN
         IF r[2] >= 3 THEN <<",", " ">> \o CollapseCommasFromThree(s, r[1])
         ELSE <<s[p]>> \o CollapseCommasFromThree(s, p + 1)

\* re.sub(r'(,\s*){2,}', ', ', s), from position p on.
RECURSIVE CollapseCommas(_, _)
CollapseCommas(s, p) ==
    IF p > Len(s) THEN <<>>
    ELSE LET r == CommaGroups(s, p, 0) IN
         IF r[2] >= 2 THEN <<",", " ">> \o CollapseCommas(s, r[1])
         ELSE <<s[p]>> \o CollapseCommas(s, p + 1)

\* The length of the match of r'^\s*,\s*|\s*,\s*$' at position p of s, 0 for
\* none: at the start of s a whitespace run, a comma and the run after it;
\* anywhere, a whitespace run, a comma and a run that ends s.
EdgeMatch(s, p) ==
    LET w  == WsRun(s, p)
        w2 == WsRun(s, p + w + 1) IN
    IF ~(p + w <= Len(s) /\ s[p + w] = ",") THEN 0
    ELSE IF p = 1 THEN w + 1 + w2
    ELSE IF p + w + w2 = Len(s) THEN w + 1 + w2
    ELSE 0

\* re.sub(r'^\s*,\s*|\s*,\s*$', '', s), from position p on.
RECURSIVE StripEdgeCommas(_, _)
StripEdgeCommas(s, p) ==
    IF p > Len(s) THEN <<>>
    ELSE LET m == EdgeMatch(s, p) IN
         IF m > 0 THEN StripEdgeCommas(s, p + m)
         ELSE <<s[p]>> \o StripEdgeCommas(s, p + 1)

\* Lines 186-188: join, collapse the comma runs, strip the edge commas.
Render(parts) == StripEdgeCommas(CollapseCommas(Join(parts), 1), 1)

\* ------------------------------------------------------------ JSON values

\* A preset name is an atomic string; a key of a preset (a category name or a
\* metadata key) is a str, so that startswith('_') and sorted() are computed.
Str(chars)  == [kind |-> "str", val |-> chars]
List(elems) == [kind |-> "list", val |-> elems]
Dict(pairs) == [kind |-> "dict", val |-> pairs]
\* A JSON number other than 0.
Num == [kind |-> "num", val |-> <<>>]
\* Python's None, the value of dict.get for a missing key.
PyNone == [kind |-> "null", val |-> <<>>]

\* isinstance(v, dict), isinstance(v, list), isinstance(v, str)
IsDict(v) == v.kind = "dict"
IsList(v) == v.kind = "list"
IsStr(v)  == v.kind = "str"

\* bool(v): an empty dict, list or str and None are false.
Truthy(v) ==
    CASE v.kind \in {"dict", "list", "str"} -> v.val # <<>>
      [] v.kind = "null" -> FALSE
      [] OTHER -> TRUE

\* list(d.keys())
Keys(d) == [i \in 1..Len(d.val) |-> d.val[i].k]

\* k in d
HasKey(d, k) == \E i \in 1..Len(d.val) : d.val[i].k = k

\* d.get(k, default)
DictGet(d, k, default) ==
    IF HasKey(d, k)
    THEN d.val[CHOOSE i \in 1..Len(d.val) : d.val[i].k = k].v
    ELSE default

\* key.startswith('_')
StartsWithUnderscore(key) == key # <<>> /\ key[1] = "_"

\* "_description", shortened.
DescriptionKey == <<"_", "d">>

\* The fallback stores of lines 32, 69, 75 and 80; the description's text is
\* shortened to one character.
NoneEntry == Dict(<<[k |-> DescriptionKey, v |-> Str(<<"d">>)]>>)

NoneOnly == Dict(<<[k |-> "None", v |-> NoneEntry]>>)

\* ------------------------------------------------------------------ load

\* [k for k in data.keys() if not k.startswith('_')]
RECURSIVE CategoryKeysOf(_)
CategoryKeysOf(keys) ==
    IF keys = <<>> THEN <<>>
    ELSE IF StartsWithUnderscore(Head(keys)) THEN CategoryKeysOf(Tail(keys))
    ELSE <<Head(keys)>> \o CategoryKeysOf(Tail(keys))

\* Line 40: the presets category discovery reads.
Discovered(presets, i) ==
    presets.val[i].k # "None" /\ IsDict(presets.val[i].v)

\* Lines 36-43: all_category_keys.
AllCategoryKeys(presets) ==
    UNION { { key \in { Keys(presets.val[i].v)[j] :
                          j \in 1..Len(presets.val[i].v.val) } :
                ~StartsWithUnderscore(key) } :
            i \in { n \in 1..Len(presets.val) : Discovered(presets, n) } }

\* Lines 47-51: first_preset_key_order.
FirstPresetKeyOrder(presets) ==
    LET found == { n \in 1..Len(presets.val) : Discovered(presets, n) } IN
    IF found = {} THEN <<>>
    ELSE LET first == CHOOSE n \in found : \A m \in found : n <= m IN
         CategoryKeysOf(Keys(presets.val[first].v))

\* Sorted with reverse=True.
RECURSIVE SortedReversed(_)
SortedReversed(S) ==
    IF S = {} THEN <<>>
    ELSE LET greatest == CHOOSE a \in S : \A b \in S \ {a} : StrLess(b, a) IN
         <<greatest>> \o SortedReversed(S \ {greatest})

\* sorted(list(S)) for a set of str.
RECURSIVE Sorted(_)
Sorted(S) ==
    IF S = {} THEN <<>>
    ELSE LET least == CHOOSE a \in S : \A b \in S \ {a} : StrLess(a, b) IN
         <<least>> \o Sorted(S \ {least})

\* Lines 54-62: ordered_categories.
OrderedCategories(presets) ==
    LET all   == AllCategoryKeys(presets)
        first == SelectSeq(FirstPresetKeyOrder(presets), LAMBDA key : key \in all)
        added == { first[j] : j \in 1..Len(first) } IN
    first \o Sorted(all \ added)

\* EnsureNone without lines 31-32.
EnsureNoneSkipped(presets) == presets

\* Lines 31-32: the "None" preset is added when the file has none.
EnsureNone(presets) ==
    IF HasKey(presets, "None") THEN presets
    ELSE Dict(Append(presets.val, [k |-> "None", v |-> NoneEntry]))

\* Lines 25-81.  What the load leaves in <<PRESETS, _AVAILABLE_CATEGORIES>>
\* for a resource [status, doc]: "missing" (os.path.exists is false),
\* "unreadable" (open raises), "malformed" (json.load raises JSONDecodeError),
\* "ok" (json.load returns doc).  A doc that is no mapping raises TypeError or
\* AttributeError at line 31, 32 or 38, which line 77 catches.
LoadResult(res) ==
    IF res.status = "ok" /\ IsDict(res.doc)
    THEN LET loaded == EnsureNone(res.doc) IN
         <<loaded, OrderedCategories(loaded)>>
    ELSE <<NoneOnly, <<>>>>

\* ------------------------------------------------- generate_preset_prompt

\* random.Random(seed) and rng.choice(seq).  The Mersenne Twister is stood in
\* for by a full-period linear congruential generator on 4 bits: the state
\* after seeding, the state after one draw, and the (1-based) index the draw
\* picks in a sequence of n elements.
Random(seed) == seed % 16

RngNext(rng) == (5 * rng + 3) % 16

ChoiceIndex(rng, n) == (RngNext(rng) % n) + 1

\* Line 131: available_presets.
AvailablePresets(presets) == SelectSeq(Keys(presets), LAMBDA name : name # "None")

\* Line 157: PRESETS.get(actual_preset_name).
PresetsGetOrFirst(presets, name) ==
    IF HasKey(presets, name) THEN DictGet(presets, name, PyNone)
    ELSE presets.val[1].v

PresetsGet(presets, name) == DictGet(presets, name, PyNone)

\* Line 159: whether the preset's categories are read at all.
UsePresetAnyName(presets, name) ==
    LET selected_preset_data == PresetsGet(presets, name) IN
    Truthy(selected_preset_data) /\ IsDict(selected_preset_data)

UsePreset(presets, name) ==
    LET selected_preset_data == PresetsGet(presets, name) IN
    /\ Truthy(selected_preset_data)
    /\ name # "None"
    /\ IsDict(selected_preset_data)

\* Line 147: kwargs.get(enable_key, True).  kwargs is a function from the
\* categories whose enable_<category> key the request holds to their values.
EnableFlagDefaultOff(kwargs, category) ==
    IF category \in DOMAIN kwargs THEN kwargs[category] ELSE FALSE

EnableFlagIgnored(kwargs, category) == TRUE

EnableFlag(kwargs, category) ==
    IF category \in DOMAIN kwargs THEN kwargs[category] ELSE TRUE

\* Where a fragment of prompt_parts came from (kept beside prompt_parts).
From(origin, category) == [origin |-> origin, category |-> category]

\* A draw of the generator: the call site and the length of the sequence.
Draw(site, category, n) == [site |-> site, category |-> category, n |-> n]

\* An invocation that has not started (pc "idle") or a slot never called
\* (pc "unused").
NewInvocation(req, pc) ==
    [pc |-> pc, req |-> req, rng |-> 0, actual_preset_name |-> "",
     enable_flags |-> <<>>, prompt_parts |-> <<>>, part_src |-> <<>>,
     category_index |-> 1, draws |-> <<>>, ordered_unique_parts |-> <<>>,
     final_prompt |-> <<>>]

\* Lines 125-159, with the generator in state rng0: resolve the preset, read
\* the enable flags, add the prefix and character fragments, and decide
\* whether the category loop runs.
Begin(req, rng0, presets, cats) ==
    LET available_presets == AvailablePresets(presets)
        drawn == req.randomize_preset /\ available_presets # <<>>
        actual_preset_name ==
            IF req.randomize_preset
            THEN IF available_presets # <<>>
                 THEN available_presets[ChoiceIndex(rng0, Len(available_presets))]
                 ELSE "None"
            ELSE req.preset_name
        prefix == _parse_specific_choices(req.prefix_tags)
        character ==
            IF req.character # <<>> /\ Strip(req.character) # <<>>
            THEN _parse_specific_choices(req.character)
            ELSE <<>>
    IN  [pc |-> IF UsePreset(presets, actual_preset_name) /\ cats # <<>>
                THEN "categories" ELSE "suffix",
         req |-> req,
         rng |-> IF drawn THEN RngNext(rng0) ELSE rng0,
         actual_preset_name |-> actual_preset_name,
         enable_flags |-> [category \in { cats[j] : j \in 1..Len(cats) } |->
                              EnableFlag(req.kwargs, category)],
         prompt_parts |-> prefix \o character,
         part_src |-> [j \in 1..Len(prefix) |-> From("prefix", <<>>)]
                      \o [j \in 1..Len(character) |-> From("character", <<>>)],
         category_index |-> 1,
         draws |-> IF drawn
                   THEN <<Draw("preset", <<>>, Len(available_presets))>>
                   ELSE <<>>,
         ordered_unique_parts |-> <<>>,
         final_prompt |-> <<>>]

\* Lines 161-169: one iteration of the category loop.
Category(v, presets, cats) ==
    LET category == cats[v.category_index]
        selected_preset_data == PresetsGet(presets, v.actual_preset_name)
        enabled == IF category \in DOMAIN v.enable_flags
                   THEN v.enable_flags[category] ELSE FALSE
        tag_options == DictGet(selected_preset_data, category, List(<<>>))
        draw == enabled /\ IsList(tag_options) /\ tag_options.val # <<>>
        chosen_tag == tag_options.val[ChoiceIndex(v.rng, Len(tag_options.val))]
        kept == /\ draw
                /\ Truthy(chosen_tag)
                /\ IsStr(chosen_tag)
                /\ Strip(chosen_tag.val) # <<>>
    IN  [v EXCEPT
           !.rng = IF draw THEN RngNext(@) ELSE @,
           !.draws = IF draw
                     THEN Append(@, Draw("tag", category, Len(tag_options.val)))
                     ELSE @,
           !.prompt_parts = IF kept THEN Append(@, Strip(chosen_tag.val)) ELSE @,
           !.part_src = IF kept THEN Append(@, From("preset", category)) ELSE @,
           !.category_index = @ + 1,
           !.pc = IF v.category_index >= Len(cats) THEN "suffix" ELSE "categories"]

\* OrderedUnique without line 184, so that nothing is ever seen.
RECURSIVE OrderedUniqueNothingSeen(_, _)
OrderedUniqueNothingSeen(parts, seen) ==
    IF parts = <<>> THEN <<>>
    ELSE LET stripped_part == Strip(Head(parts)) IN
         IF stripped_part # <<>> /\ stripped_part \notin seen
         THEN <<stripped_part>> \o OrderedUniqueNothingSeen(Tail(parts), seen)
         ELSE OrderedUniqueNothingSeen(Tail(parts), seen)

\* Lines 178-184: ordered_unique_parts.
RECURSIVE OrderedUnique(_, _)
OrderedUnique(parts, seen) ==
    IF parts = <<>> THEN <<>>
    ELSE LET stripped_part == Strip(Head(parts)) IN
         IF stripped_part # <<>> /\ stripped_part \notin seen
         THEN <<stripped_part>>
              \o OrderedUnique(Tail(parts), seen \cup {stripped_part})
         ELSE OrderedUnique(Tail(parts), seen)

\* Lines 175-190: add the suffix fragments, deduplicate, render, return.
End(v) ==
    LET suffix == _parse_specific_choices(v.req.suffix_tags)
        parts  == v.prompt_parts \o suffix
        unique == OrderedUnique(parts, {})
    IN  [v EXCEPT
           !.prompt_parts = parts,
           !.part_src = @ \o [j \in 1..Len(suffix) |-> From("suffix", <<>>)],
           !.ordered_unique_parts = unique,
           !.final_prompt = Render(unique),
           !.pc = "done"]

\* The category loop run to its end.
RECURSIVE Categories(_, _, _)
Categories(v, presets, cats) ==
    IF v.pc = "categories" THEN Categories(Category(v, presets, cats), presets, cats)
    ELSE v

\* One whole invocation, run alone against the store: what it returns.
generate_preset_prompt(req, presets, cats) ==
    End(Categories(Begin(req, Random(req.seed), presets, cats), presets, cats))
        .final_prompt

\* ----------------------------------------------------------------- state

VARIABLES
    resource,               \* presets.json as the load finds it: [status, doc]
    loaded,                 \* whether the module-level code has run
    PRESETS,                \* the module-level store
    _AVAILABLE_CATEGORIES,  \* the module-level category list
    inv                     \* the invocations of generate_preset_prompt

vars == <<resource, loaded, PRESETS, _AVAILABLE_CATEGORIES, inv>>

\* The invocations that may be in progress at once.
NSlots == 2

Slots == 1..NSlots

\* The largest seed of a request.
MaxSeed == 2

\* The longest tag of the generated tag lists.
MaxTagLen == 3

\* The most keys a generated preset holds.
MaxKeys == 2

\* ---------------------------------------------------------------- inputs

\* All sequences of elements of S of length at most n.
SeqsUpTo(S, n) == UNION { [1..m -> S] : m \in 0..n }

\* All sequences of distinct elements of S of length at most n.
DistinctSeqs(S, n) ==
    { q \in SeqsUpTo(S, n) : \A i, j \in 1..Len(q) : i # j => q[i] # q[j] }

Resource(status, doc) == [status |-> status, doc |-> doc]

Pair(k, v) == [k |-> k, v |-> v]

\* All kwargs over the categories C: any subset of the flags, any values.
KwargsOver(C) == UNION { [D -> BOOLEAN] : D \in SUBSET C }

Request(randomize_preset, preset_name, prefix_tags, character, suffix_tags, seed, kwargs) ==
    [randomize_preset |-> randomize_preset, preset_name |-> preset_name,
     prefix_tags |-> prefix_tags, character |-> character,
     suffix_tags |-> suffix_tags, seed |-> seed, kwargs |-> kwargs]

\* A presets.json with a metadata key, a category whose tags repeat the
\* prefix, a "None" that carries tags, an empty list, a non-string tag, a
\* blank tag, a category that is no list and a preset that is no mapping.
DocMain ==
    Dict(<<
      Pair("p", Dict(<<Pair(DescriptionKey, Str(<<"d">>)),
                       Pair(<<"b">>, List(<<Str(<<"a">>), Str(<<"b">>)>>)),
                       Pair(<<"a">>, List(<<Str(<<"a">>)>>))>>)),
      Pair("None", Dict(<<Pair(<<"a">>, List(<<Str(<<"b">>)>>))>>)),
      Pair("q", Dict(<<Pair(<<"a">>, List(<<>>)),
                       Pair(<<"B">>, List(<<Str(<<"b">>), Num, Str(<<" ">>)>>)),
                       Pair(<<"b">>, Str(<<"a", "b">>))>>)),
      Pair("r", List(<<Str(<<"a">>)>>))>>)

\* A presets.json that holds "None" alone, with tags.
DocNoneOnly ==
    Dict(<<Pair("None", Dict(<<Pair(<<"a">>, List(<<Str(<<"a">>)>>))>>))>>)

\* A presets.json whose one preset is empty.
DocEmptyPreset == Dict(<<Pair("q", Dict(<<>>))>>)

FailedResources ==
    { Resource("missing", PyNone), Resource("unreadable", PyNone),
      Resource("malformed", PyNone), Resource("ok", List(<<Str(<<"a">>)>>)),
      Resource("ok", Str(<<"a">>)), Resource("ok", Num) }

MainResources ==
    { Resource("ok", DocMain), Resource("ok", DocNoneOnly),
      Resource("ok", DocEmptyPreset) } \cup FailedResources

MainRequests ==
    { Request(rz, name, prefix, character, suffix, seed, kwargs) :
        rz \in BOOLEAN,
        name \in {"None", "p", "q", "r", "zz"},
        prefix \in { <<>>, <<"b", ",", " ", "a">> },
        character \in { <<>>, <<"b">> },
        suffix \in { <<>>, <<"a">> },
        seed \in 0..MaxSeed,
        kwargs \in KwargsOver({ <<"a">>, <<"b">>, <<"B">> }) }

\* ----------------------------------------------------------------- specs

\* Lines 20 and 23, before the load of the resource `res`.
InitStore(res) ==
    /\ resource = res
    /\ loaded = FALSE
    /\ PRESETS = Dict(<<>>)
    /\ _AVAILABLE_CATEGORIES = <<>>

\* `active` invocations wait to start, each with a request of `requests`.
InitInv(requests, active) ==
    \E reqs \in [1..active -> requests] :
      inv = [i \in Slots |->
               IF i <= active THEN NewInvocation(reqs[i], "idle")
               ELSE NewInvocation(
                      Request(FALSE, "None", <<>>, <<>>, <<>>, 0, <<>>),
                      "unused")]

\* Lines 25-81: the module-level load, run once at import.
Load ==
    /\ ~loaded
    /\ loaded' = TRUE
    /\ PRESETS' = LoadResult(resource)[1]
    /\ _AVAILABLE_CATEGORIES' = LoadResult(resource)[2]
    /\ UNCHANGED <<resource, inv>>

\* Lines 125-159 of invocation i, the generator seeded with `rng0`.
StartFrom(i, rng0) ==
    /\ loaded
    /\ inv[i].pc = "idle"
    /\ inv' = [inv EXCEPT
                 ![i] = Begin(inv[i].req, rng0, PRESETS, _AVAILABLE_CATEGORIES)]
    /\ UNCHANGED <<resource, loaded, PRESETS, _AVAILABLE_CATEGORIES>>

\* Start with random.Random(), which seeds from the system's entropy.
StartUnseeded(i) == \E rng0 \in 0..15 : StartFrom(i, rng0)

Start(i) == StartFrom(i, Random(inv[i].req.seed))

\* d[k] = v on a dict that holds k.
DictSet(d, k, v) ==
    Dict([j \in 1..Len(d.val) |-> IF d.val[j].k = k THEN Pair(k, v) ELSE d.val[j]])

\* ChooseTag with tag_options.pop(index) for rng.choice(tag_options): the tag
\* drawn is taken out of the store's list.
ChooseTagPopping(i) ==
    LET v == inv[i]
        category == _AVAILABLE_CATEGORIES[v.category_index]
        entry == PresetsGet(PRESETS, v.actual_preset_name)
        tag_options == DictGet(entry, category, List(<<>>))
        draw == /\ v.enable_flags[category]
                /\ IsList(tag_options) /\ tag_options.val # <<>>
        index == ChoiceIndex(v.rng, Len(tag_options.val))
        popped == List([j \in 1..(Len(tag_options.val) - 1) |->
                          IF j < index THEN tag_options.val[j]
                          ELSE tag_options.val[j + 1]])
    IN  /\ v.pc = "categories"
        /\ inv' = [inv EXCEPT ![i] = Category(v, PRESETS, _AVAILABLE_CATEGORIES)]
        /\ PRESETS' = IF draw
                      THEN DictSet(PRESETS, v.actual_preset_name,
                                   DictSet(entry, category, popped))
                      ELSE PRESETS
        /\ UNCHANGED <<resource, loaded, _AVAILABLE_CATEGORIES>>

\* Lines 161-169 of invocation i: one category.
ChooseTag(i) ==
    /\ inv[i].pc = "categories"
    /\ inv' = [inv EXCEPT ![i] = Category(inv[i], PRESETS, _AVAILABLE_CATEGORIES)]
    /\ UNCHANGED <<resource, loaded, PRESETS, _AVAILABLE_CATEGORIES>>

\* Lines 175-190 of invocation i.
Finish(i) ==
    /\ inv[i].pc = "suffix"
    /\ inv' = [inv EXCEPT ![i] = End(inv[i])]
    /\ UNCHANGED <<resource, loaded, PRESETS, _AVAILABLE_CATEGORIES>>

Next ==
    \/ Load
    \/ \E i \in Slots : Start(i)
    \/ \E i \in Slots : ChooseTag(i)
    \/ \E i \in Slots : Finish(i)

Init ==
    /\ \E res \in MainResources : InitStore(res)
    /\ InitInv(MainRequests, 1)

Spec == Init /\ [][Next]_vars

\* The load alone, over generated documents: every order of the presets
\* "None", "p" and "q", each no mapping or a mapping of at most MaxKeys keys in
\* every order.
LoadKeys == { DescriptionKey, <<"a">>, <<"b">>, <<"B">> }

GeneratedEntries ==
    { List(<<Str(<<"a">>)>>) } \cup
    { Dict([j \in 1..Len(ks) |-> Pair(ks[j], List(<<Str(<<"a">>)>>))]) :
        ks \in DistinctSeqs(LoadKeys, MaxKeys) }

InitLoad ==
    /\ \/ \E res \in FailedResources : InitStore(res)
       \/ \E names \in DistinctSeqs({"None", "p", "q"}, 3) :
            \E entries \in [1..Len(names) -> GeneratedEntries] :
              InitStore(Resource("ok",
                Dict([j \in 1..Len(names) |-> Pair(names[j], entries[j])])))
    /\ InitInv({}, 0)

SpecLoad == InitLoad /\ [][Load]_vars

\* One invocation over generated tags: preset "p" holds every tag of at most
\* MaxTagLen characters among a letter, the comma, the space and the newline,
\* beside a second category.
TagChars == { "a", ",", " ", "\n" }

TextRequests ==
    { Request(FALSE, "p", prefix, character, suffix, 0, kwargs) :
        prefix \in { <<>>, <<"a">>, <<"a", ",", "b", ",", "a">>,
                     <<",", "\n", "B">> },
        character \in { <<>>, <<"b">> },
        suffix \in { <<>>, <<"a", ",", " ", "B">>, <<",">> },
        kwargs \in { <<>>, [category \in { <<"b">> } |-> FALSE] } }

InitText ==
    /\ \E t1 \in SeqsUpTo(TagChars, MaxTagLen) :
         \E t2 \in { <<"a">>, <<"b">>, <<",">>, <<",", "a">> } :
           InitStore(Resource("ok",
             Dict(<<Pair("p", Dict(<<Pair(<<"a">>, List(<<Str(t1)>>)),
                                     Pair(<<"b">>, List(<<Str(t2)>>))>>))>>)))
    /\ InitInv(TextRequests, 1)

SpecText == InitText /\ [][Next]_vars

\* NSlots invocations in any interleaving against one store.
ConcResources == { Resource("ok", DocMain), Resource("missing", PyNone) }

ConcRequests ==
    { Request(rz, "p", <<"a">>, <<>>, <<"b">>, seed, kwargs) :
        rz \in BOOLEAN,
        seed \in 0..MaxSeed,
        kwargs \in { <<>>, [category \in { <<"a">> } |-> FALSE] } }

InitConc ==
    /\ \E res \in ConcResources : InitStore(res)
    /\ InitInv(ConcRequests, NSlots)

SpecConc == InitConc /\ [][Next]_vars

\* ---------------------------------------------------------------- claims

Done(i) == inv[i].pc = "done"

\* The set of elements of a sequence.
Range(q) == { q[j] : j \in 1..Len(q) }

\* Whether the request of invocation i enables a category: its flag, or true
\* when the request holds no flag for it.
Enabled(i, category) ==
    category \notin DOMAIN inv[i].req.kwargs \/ inv[i].req.kwargs[category]

\* The entry the store holds for the preset invocation i resolved.
ResolvedEntry(i) == DictGet(PRESETS, inv[i].actual_preset_name, PyNone)

\* Whether the resolved preset holds a non-empty list for a category.
HoldsTags(i, category) ==
    /\ IsDict(ResolvedEntry(i))
    /\ HasKey(ResolvedEntry(i), category)
    /\ IsList(DictGet(ResolvedEntry(i), category, PyNone))
    /\ DictGet(ResolvedEntry(i), category, PyNone).val # <<>>

\* The generator's state after n draws from the state rng.
RECURSIVE Advance(_, _)
Advance(rng, n) == IF n = 0 THEN rng ELSE Advance(RngNext(rng), n - 1)

\* What an invocation builds from its prefix, character and suffix alone.
TextOnly(req) ==
    Render(OrderedUnique(
        _parse_specific_choices(req.prefix_tags)
        \o (IF Strip(req.character) # <<>>
            THEN _parse_specific_choices(req.character) ELSE <<>>)
        \o _parse_specific_choices(req.suffix_tags), {}))

\* C1: two invocations with identical arguments against the same loaded store
\* return identical strings, having resolved the same preset and made the
\* same draws.
Determinism ==
    \A i, j \in Slots :
      (Done(i) /\ Done(j) /\ inv[i].req = inv[j].req)
        => /\ inv[i].final_prompt = inv[j].final_prompt
           /\ inv[i].actual_preset_name = inv[j].actual_preset_name
           /\ inv[i].draws = inv[j].draws
           /\ inv[i].prompt_parts = inv[j].prompt_parts

\* Two finished invocations of one randomized request that each drew a preset
\* and a tag.
DeterminismWitness ==
    /\ Done(1) /\ Done(2)
    /\ inv[1].req = inv[2].req
    /\ inv[1].req.randomize_preset
    /\ Len(inv[1].draws) >= 2 /\ Len(inv[2].draws) >= 2

\* The pieces of s between its commas, as str.split(',') gives them, but
\* none for the empty string.
RECURSIVE CommaSegments(_, _)
CommaSegments(s, cur) ==
    IF s = <<>> THEN <<cur>>
    ELSE IF Head(s) = "," THEN <<cur>> \o CommaSegments(Tail(s), <<>>)
    ELSE CommaSegments(Tail(s), Append(cur, Head(s)))

Segments(s) == IF s = <<>> THEN <<>> ELSE CommaSegments(s, <<>>)

FirstOccurrences(parts) ==
    LET keep == { j \in 1..Len(parts) :
                    /\ Strip(parts[j]) # <<>>
                    /\ \A h \in 1..(j - 1) : Strip(parts[h]) # Strip(parts[j]) }
        nth[n \in 0..Len(parts)] ==
            IF n = 0 THEN <<>>
            ELSE IF n \in keep THEN Append(nth[n - 1], Strip(parts[n]))
            ELSE nth[n - 1]
    IN  nth[Len(parts)]

\* C3 as claimed: the output is, for any fragment sequence, its distinct
\* trimmed non-blank values, each once, in order of first appearance.
DedupPreservesFirstInOutput ==
    \A i \in Slots :
      Done(i) => inv[i].final_prompt = Join(FirstOccurrences(inv[i].prompt_parts))

\* C3 as amended: the deduplicated fragment list holds each distinct trimmed
\* non-blank fragment exactly once, in order of first appearance, and the
\* output is that list joined by ", " whenever no fragment holds a comma.
DedupPreservesFirst ==
    \A i \in Slots :
      Done(i) =>
        /\ inv[i].ordered_unique_parts = FirstOccurrences(inv[i].prompt_parts)
        /\ (\A part \in Range(inv[i].prompt_parts) : "," \notin Range(part))
             => inv[i].final_prompt = Join(FirstOccurrences(inv[i].prompt_parts))

\* A finished invocation that dropped a drawn tag as a duplicate of an
\* earlier fragment, none of the fragments holding a comma.
DedupPreservesFirstWitness ==
    \E i \in Slots :
      /\ Done(i)
      /\ \A part \in Range(inv[i].prompt_parts) : "," \notin Range(part)
      /\ \E j \in 1..Len(inv[i].prompt_parts) :
           /\ inv[i].part_src[j].origin = "preset"
           /\ \E h \in 1..(j - 1) : inv[i].prompt_parts[h] = inv[i].prompt_parts[j]
      /\ Len(inv[i].ordered_unique_parts) >= 2

\* The trimmed tags a category lists in the resolved preset.
TagsOf(i, category) ==
    IF HoldsTags(i, category)
    THEN { Strip(tag.val) :
             tag \in { t \in Range(DictGet(ResolvedEntry(i), category, PyNone).val) :
                         IsStr(t) } } \ { <<>> }
    ELSE {}

\* The categories a finished invocation's request disables.
Disabled(i) ==
    { category \in Range(_AVAILABLE_CATEGORIES) : ~Enabled(i, category) }

\* C4 as claimed: no tag a disabled category lists in the preset used appears
\* in the output.
DisabledTagsAbsentFromOutput ==
    \A i \in Slots :
      (Done(i) /\ UsePreset(PRESETS, inv[i].actual_preset_name)) =>
        \A category \in Disabled(i) :
          \A tag \in TagsOf(i, category) :
            \A seg \in Range(Segments(inv[i].final_prompt)) : Strip(seg) # tag

\* C4 as amended: a disabled category consumes no draw and contributes no
\* fragment; a tag it lists reaches the output only from the prefix, the
\* character, the suffix or an enabled category.
DisabledCategoryContributesNothing ==
    \A i \in Slots :
      Done(i) =>
        \A category \in Disabled(i) :
          /\ \A d \in Range(inv[i].draws) : d.category # category
          /\ \A src \in Range(inv[i].part_src) :
               src.origin = "preset" => src.category # category

\* A finished invocation with a disabled category that lists tags in the
\* resolved preset, while another category was drawn from.
DisabledCategoryWitness ==
    \E i \in Slots :
      /\ Done(i)
      /\ inv[i].actual_preset_name # "None"
      /\ \E category \in Disabled(i) : TagsOf(i, category) # {}
      /\ \E src \in Range(inv[i].part_src) : src.origin = "preset"

\* C5: a resolved preset "None" adds no preset fragment and consumes no tag
\* draw, whatever the flags and the "None" entry hold, so the output is built
\* from prefix, character and suffix alone; and a randomized selection never
\* resolves to "None" while another preset name exists.
NonePresetNoContent ==
    \A i \in Slots :
      Done(i) =>
        /\ inv[i].actual_preset_name = "None"
             => /\ \A src \in Range(inv[i].part_src) : src.origin # "preset"
                /\ \A d \in Range(inv[i].draws) : d.site # "tag"
                /\ inv[i].final_prompt = TextOnly(inv[i].req)
        /\ (inv[i].req.randomize_preset /\ \E name \in Range(Keys(PRESETS)) : name # "None")
             => inv[i].actual_preset_name # "None"

\* A finished invocation that named "None" while the "None" entry lists tags
\* for an enabled category of the store.
NonePresetWitness ==
    \E i \in Slots :
      /\ Done(i)
      /\ ~inv[i].req.randomize_preset
      /\ inv[i].actual_preset_name = "None"
      /\ \E category \in Range(_AVAILABLE_CATEGORIES) :
           Enabled(i, category) /\ TagsOf(i, category) # {}

\* C6: with randomize off, a preset name the store does not hold, or holds
\* with a value that is no mapping, returns what preset "None" returns for the
\* same seed, prefix, character, suffix and flags.
SelectionMissDegrades ==
    \A i \in Slots :
      (/\ Done(i)
       /\ ~inv[i].req.randomize_preset
       /\ \/ ~HasKey(PRESETS, inv[i].req.preset_name)
          \/ ~IsDict(DictGet(PRESETS, inv[i].req.preset_name, PyNone)))
        => inv[i].final_prompt =
             generate_preset_prompt([inv[i].req EXCEPT !.preset_name = "None"],
                                    PRESETS, _AVAILABLE_CATEGORIES)

\* A finished invocation that named a preset missing from a store that holds
\* presets with tags, and returned text.
SelectionMissWitness ==
    \E i \in Slots :
      /\ Done(i)
      /\ ~inv[i].req.randomize_preset
      /\ ~HasKey(PRESETS, inv[i].req.preset_name)
      /\ _AVAILABLE_CATEGORIES # <<>>
      /\ inv[i].final_prompt # <<>>

\* How a resource fails to load: no file, an error on reading or parsing, or
\* a document that is no mapping.
LoadFailed == resource.status # "ok" \/ ~IsDict(resource.doc)

\* C7: after the load, whatever the resource, PRESETS holds "None"; when the
\* load failed PRESETS holds "None" alone, that entry has no category key, and
\* _AVAILABLE_CATEGORIES is empty.
StoreHoldsNone ==
    loaded =>
      /\ IsDict(PRESETS) /\ HasKey(PRESETS, "None")
      /\ LoadFailed =>
           /\ Keys(PRESETS) = <<"None">>
           /\ IsDict(PRESETS.val[1].v)
           /\ \A key \in Range(Keys(PRESETS.val[1].v)) : key[1] = "_"
           /\ _AVAILABLE_CATEGORIES = <<>>

\* A loaded document that is a mapping without "None", with other presets.
StoreHoldsNoneWitness ==
    /\ loaded
    /\ ~LoadFailed
    /\ ~HasKey(resource.doc, "None")
    /\ Len(resource.doc.val) >= 2

\* The positions of the presets that are mappings and not "None".
MappingPresets == { n \in 1..Len(PRESETS.val) :
                      PRESETS.val[n].k # "None" /\ PRESETS.val[n].v.kind = "dict" }

\* The keys of preset n that do not start with an underscore, in its order.
CategoryKeysAt(n) ==
    SelectSeq(Keys(PRESETS.val[n].v), LAMBDA key : key[1] # "_")

\* C8: after a successful load _AVAILABLE_CATEGORIES holds distinct names, its
\* set is the non-underscore keys of the mapping presets other than "None",
\* it starts with those of the first such preset in that preset's order, and
\* the rest ascends lexicographically.
CategoryOrderDerived ==
    (loaded /\ ~LoadFailed) =>
      LET cats  == _AVAILABLE_CATEGORIES
          first == IF MappingPresets = {} THEN <<>>
                   ELSE CategoryKeysAt(CHOOSE n \in MappingPresets :
                                         \A m \in MappingPresets : n <= m)
      IN  /\ \A h, j \in 1..Len(cats) : h # j => cats[h] # cats[j]
          /\ Range(cats) = UNION { Range(CategoryKeysAt(n)) : n \in MappingPresets }
          /\ Len(first) <= Len(cats)
          /\ SubSeq(cats, 1, Len(first)) = first
          /\ \A h, j \in (Len(first) + 1)..Len(cats) :
               h < j => StrLess(cats[h], cats[j])

\* A loaded store whose first entry is "None" with a category of its own,
\* whose first mapping preset holds one category, and whose later preset adds
\* two more.
CategoryOrderWitness ==
    /\ loaded /\ ~LoadFailed
    /\ PRESETS.val[1].k = "None"
    /\ IsDict(PRESETS.val[1].v)
    /\ \E key \in Range(Keys(PRESETS.val[1].v)) : key \notin Range(_AVAILABLE_CATEGORIES)
    /\ Len(_AVAILABLE_CATEGORIES) = 3
    /\ Len(CategoryKeysAt(CHOOSE n \in MappingPresets :
                            \A m \in MappingPresets : n <= m)) = 1

\* Whether invocation i drew its preset: randomize on and a preset other than
\* "None" in the store.
DrewPreset(i) ==
    inv[i].req.randomize_preset /\ \E name \in Range(Keys(PRESETS)) : name # "None"

\* C9 as claimed: the draws number one for a randomized preset choice plus
\* one per enabled category for which the resolved preset holds a non-empty
\* list.
DrawCountByCategory ==
    \A i \in Slots :
      Done(i) =>
        Len(inv[i].draws) =
          (IF DrewPreset(i) THEN 1 ELSE 0)
          + Cardinality({ category \in Range(_AVAILABLE_CATEGORIES) :
                            Enabled(i, category) /\ HoldsTags(i, category) })

\* C9 as amended: the generator is created once from the seed; the preset
\* draw, made only when randomize is on and a preset other than "None"
\* exists, comes first; then one tag draw, in _AVAILABLE_CATEGORIES order, for
\* each enabled category (an absent flag enables) for which the resolved
\* preset, if it is not "None", holds a non-empty list; nothing else draws.
DrawOrder ==
    \A i \in Slots :
      Done(i) =>
        LET drawing == SelectSeq(_AVAILABLE_CATEGORIES,
                         LAMBDA category :
                           /\ inv[i].actual_preset_name # "None"
                           /\ Enabled(i, category)
                           /\ HoldsTags(i, category))
            tags == [j \in 1..Len(drawing) |->
                       Draw("tag", drawing[j],
                            Len(DictGet(ResolvedEntry(i), drawing[j], PyNone).val))]
        IN  /\ inv[i].draws =
                 (IF DrewPreset(i)
                  THEN <<Draw("preset", <<>>,
                              Cardinality(Range(Keys(PRESETS)) \ {"None"}))>>
                  ELSE <<>>) \o tags
            /\ inv[i].rng = Advance(Random(inv[i].req.seed), Len(inv[i].draws))

\* A finished invocation that drew its preset and then a tag for a category
\* whose flag the request does not hold, and skipped a disabled category that
\* lists tags.
DrawOrderWitness ==
    \E i \in Slots :
      /\ Done(i)
      /\ Len(inv[i].draws) >= 2
      /\ inv[i].draws[1].site = "preset"
      /\ \E d \in Range(inv[i].draws) :
           d.site = "tag" /\ d.category \notin DOMAIN inv[i].req.kwargs
      /\ \E category \in Disabled(i) : HoldsTags(i, category)

\* C10: invocations in any interleaving leave PRESETS and
\* _AVAILABLE_CATEGORIES as the load left them, and each returns the string
\* it returns when run alone against the freshly loaded store.
NoSharedMutableState ==
    loaded =>
      /\ PRESETS = LoadResult(resource)[1]
      /\ _AVAILABLE_CATEGORIES = LoadResult(resource)[2]
      /\ \A i \in Slots :
           Done(i) =>
             inv[i].final_prompt =
               generate_preset_prompt(inv[i].req, LoadResult(resource)[1],
                                      LoadResult(resource)[2])

\* One invocation has returned drawn tags while another is inside its
\* category loop.
NoSharedMutableStateWitness ==
    /\ Done(1)
    /\ \E d \in Range(inv[1].draws) : d.site = "tag"
    /\ inv[2].pc = "categories"
    /\ inv[2].category_index >= 2

====
